---------------------------- MODULE Spec2Model ----------------------------
(***************************************************************************)
(* A model of src/main.py: the Streamlit script of the AI cooking          *)
(* assistant.  One execution of the script (a "run") is modelled as a      *)
(* sequential state machine: for every image of the selected source the    *)
(* script opens it, applies the quality gate, compresses it, calls the     *)
(* remote vision model, collects the result; then it aggregates, calls     *)
(* the remote text model once and renders the outcome.                     *)
(*                                                                         *)
(* Strings are sequences of tokens (<<"tomato", ", ", "onion">>), so that  *)
(* ", ".join is computed and not assumed.  Python's None/str values are    *)
(* records [isNone, val].                                                  *)
(***************************************************************************)
EXTENDS Integers, Sequences, FiniteSets, TLC

(* ------------------------------ bounds --------------------------------- *)
MaxFiles == 2
MaxServings == 2

(* ------------------------- program constants --------------------------- *)
MinResolution == 300
BlurThreshold == 100
MinServings == 1
NumLinks == 5
SampleSize == 3

(* ------------------------- values and inputs --------------------------- *)
None == [isNone |-> TRUE, val |-> <<>>]
Some(s) == [isNone |-> FALSE, val |-> s]

\* Python truthiness of an Optional[str]: None and "" are falsy.
Truthy_IsNotNone(x) == ~x.isNone
Truthy(x) == ~x.isNone /\ x.val # <<>>

\* A PIL image as far as the script reads it: size, the variance of its edge
\* map, whether its bytes decode (a file PIL cannot identify fails in
\* Image.open; a truncated file opens lazily and fails when the pixels are
\* loaded, its size being known from the header), and its mode (JPEG cannot
\* store an alpha channel).
ImageOf(w, h, e, d, m) == [w |-> w, h |-> h, e |-> e, decode |-> d, mode |-> m]
Images ==
    { ImageOf(MinResolution, MinResolution, BlurThreshold, "ok", "RGB"),
      ImageOf(MinResolution - 1, MinResolution, BlurThreshold, "ok", "RGB"),
      ImageOf(MinResolution, MinResolution - 1, BlurThreshold, "ok", "RGB"),
      ImageOf(MinResolution - 1, MinResolution, BlurThreshold - 1, "ok", "RGB"),
      ImageOf(MinResolution, MinResolution, BlurThreshold - 1, "ok", "RGB"),
      ImageOf(MinResolution, MinResolution, BlurThreshold, "ok", "RGBA"),
      ImageOf(MinResolution, MinResolution, BlurThreshold, "unidentified", "RGB"),
      ImageOf(MinResolution, MinResolution, BlurThreshold, "truncated", "RGB"),
      ImageOf(MinResolution, MinResolution - 1, BlurThreshold, "truncated", "RGB") }
NoImage == ImageOf(0, 0, 0, "absent", "RGB")

SeqsUpTo(S, n) == UNION { [1..k -> S] : k \in 0..n }

\* Slot 0 is the camera capture, slots 1..MaxFiles the uploaded files.
Slots == 0..MaxFiles

\* Msg tags name the st.* call that emits the message (the two except
\* branches show the same text and are told apart by their place).
\* A chat-completion call either raises or returns a list of choices, each
\* with a message content that may be None or "".
Raised == [raises |-> TRUE, choices |-> <<>>]
Returned(cs) == [raises |-> FALSE, choices |-> cs]
ResponsesWith(contents) ==
    { Raised, Returned(<<>>), Returned(<<None>>), Returned(<<Some(<<>>)>>) }
        \cup { Returned(<<Some(c)>>) : c \in contents }
VisionResponses ==
    ResponsesWith({ <<"tomato", ", ", "onion">>, <<"chicken", ", ", "garlic">> })
TextResponses == ResponsesWith({ <<"recipe">> })

Msg(kind, msg, text) == [kind |-> kind, msg |-> msg, text |-> text]

(* ------------------------------ state ---------------------------------- *)
VARIABLES
    uploaded_files,   \* st.file_uploader(...): the uploaded images, in order
    camera_image,     \* st.camera_input(...): an image or NoImage
    servings,         \* st.number_input(...)
    pc,               \* position of the script
    idx,              \* slot of the image being processed
    ingredients,      \* return value of process_image for the current image
    ingredients_list, \* the list built by the loop
    all_ingredients,  \* ", ".join(ingredients_list)
    recipe,           \* return value of suggest_single_recipe
    links,            \* the sample of recipe links shown
    ui,               \* the messages rendered so far, in order
    verdict,          \* per slot: the quality gate's verdict (history)
    vision_calls,     \* per slot: the responses of the vision model (history)
    text_calls        \* the requests sent to the text model and their responses

vars == << uploaded_files, camera_image, servings, pc, idx, ingredients,
           ingredients_list, all_ingredients, recipe, links, ui, verdict,
           vision_calls, text_calls >>

inputs == << uploaded_files, camera_image, servings >>

Fresh ==
    /\ pc = "start"
    /\ idx = 0
    /\ ingredients = None
    /\ ingredients_list = <<>>
    /\ all_ingredients = <<>>
    /\ recipe = None
    /\ links = {}
    /\ ui = <<>>
    /\ verdict = [k \in Slots |-> "none"]
    /\ vision_calls = [k \in Slots |-> <<>>]
    /\ text_calls = <<>>

Init ==
    /\ uploaded_files \in SeqsUpTo(Images, MaxFiles)
    /\ camera_image \in Images \cup {NoImage}
    /\ servings \in MinServings..MaxServings
    /\ Fresh

\* The image the loop variable is bound to.
Current == IF idx = 0 THEN camera_image ELSE uploaded_files[idx]

(* --------------------------- pure functions ---------------------------- *)
\* process_image, first check.
ResolutionTooLow(image) == image.w < MinResolution \/ image.h < MinResolution

\* is_image_blurry(image, threshold): variance < threshold.
is_image_blurry_AtMost(image, threshold) == image.e <= threshold
is_image_blurry(image, threshold) == image.e < threshold

\* The verdict of the two checks of process_image, in order.
QualityGate(image) ==
    IF ResolutionTooLow(image) THEN "resolution"
    ELSE IF is_image_blurry(image, BlurThreshold) THEN "blur"
    ELSE "accept"

\* Where process_image goes after the gate: both rejections return None.
AfterGate_NoReturn(v) == "compress"
AfterGate(v) == IF v = "accept" THEN "compress" ELSE "collect"

\* image.save(buffered, format="JPEG") raises for modes JPEG cannot store.
JpegWritable(image) == image.mode = "RGB"

\* The parse shared by analyze_ingredient and suggest_single_recipe:
\* the first choice's content if there is one and it is truthy.
FirstContent(resp) ==
    IF resp.choices # <<>> /\ Truthy(resp.choices[1])
    THEN resp.choices[1] ELSE None

\* analyze_ingredient: the value returned and the errors shown.
analyze_ingredient(resp) ==
    IF resp.raises
    THEN [value |-> None, shown |-> << Msg("error", "analyze_exception", <<>>) >>]
    ELSE IF Truthy(FirstContent(resp))
    THEN [value |-> FirstContent(resp), shown |-> <<>>]
    ELSE [value |-> None, shown |-> << Msg("error", "identify_failed", <<>>) >>]

\* suggest_single_recipe: the value returned and the errors shown.
suggest_single_recipe(resp) ==
    IF resp.raises
    THEN [value |-> None, shown |-> << Msg("error", "suggest_exception", <<>>) >>]
    ELSE IF Truthy(FirstContent(resp))
    THEN [value |-> FirstContent(resp), shown |-> <<>>]
    ELSE [value |-> None, shown |-> << Msg("error", "suggest_failed", <<>>) >>]

\* ", ".join(list)
RECURSIVE Join(_)
Join(list) ==
    IF list = <<>> THEN <<>>
    ELSE IF Len(list) = 1 THEN list[1]
    ELSE list[1] \o <<", ">> \o Join(Tail(list))

\* get_additional_recipe_links: the possible samples of SampleSize links.
get_additional_recipe_links ==
    { s \in SUBSET (1..NumLinks) : Cardinality(s) = SampleSize }

\* The slot the loop turns to after slot k, or -1 when the source is exhausted.
NextSlot(k) == IF k # 0 /\ k < Len(uploaded_files) THEN k + 1 ELSE -1

(* ------------------------------ actions -------------------------------- *)
\* ingredients_list = []; if uploaded_files: ... elif camera_image: ...
Start ==
    /\ pc = "start"
    /\ ingredients_list' = <<>>
    /\ IF uploaded_files # <<>> THEN idx' = 1 /\ pc' = "open"
       ELSE IF camera_image # NoImage THEN idx' = 0 /\ pc' = "open"
       ELSE idx' = idx /\ pc' = "aggregate"
    /\ UNCHANGED << inputs, ingredients, all_ingredients, recipe, links, ui,
                    verdict, vision_calls, text_calls >>

\* image = Image.open(...): raises on a file PIL cannot identify.
Open ==
    /\ pc = "open"
    /\ pc' = IF Current.decode = "unidentified" THEN "crashed" ELSE "gate"
    /\ UNCHANGED << inputs, idx, ingredients, ingredients_list, all_ingredients,
                    recipe, links, ui, verdict, vision_calls, text_calls >>

\* process_image up to the blur check.
Gate ==
    /\ pc = "gate"
    /\ IF ResolutionTooLow(Current)
       THEN /\ ui' = Append(ui, Msg("error", "resolution", <<>>))
            /\ verdict' = [verdict EXCEPT ![idx] = "resolution"]
            /\ ingredients' = None
            /\ pc' = AfterGate("resolution")
       ELSE IF Current.decode = "truncated"
       THEN \* image.convert("L") loads the pixels and raises
            /\ pc' = "crashed"
            /\ UNCHANGED << ui, verdict, ingredients >>
       ELSE /\ verdict' = [verdict EXCEPT ![idx] = QualityGate(Current)]
            /\ pc' = AfterGate(QualityGate(Current))
            /\ IF QualityGate(Current) = "blur"
               THEN /\ ui' = Append(ui, Msg("error", "blurry", <<>>))
                    /\ ingredients' = None
               ELSE UNCHANGED << ui, ingredients >>
    /\ UNCHANGED << inputs, idx, ingredients_list, all_ingredients, recipe,
                    links, vision_calls, text_calls >>

\* compressed_image_bytes = compress_image(image)
Compress ==
    /\ pc = "compress"
    /\ pc' = IF JpegWritable(Current) THEN "recognize" ELSE "crashed"
    /\ UNCHANGED << inputs, idx, ingredients, ingredients_list, all_ingredients,
                    recipe, links, ui, verdict, vision_calls, text_calls >>

\* ingredients = analyze_ingredient(compressed_image_bytes)
Recognize ==
    /\ pc = "recognize"
    /\ \E resp \in VisionResponses :
         /\ vision_calls' = [vision_calls EXCEPT ![idx] = Append(@, resp)]
         /\ ingredients' = analyze_ingredient(resp).value
         /\ ui' = ui \o analyze_ingredient(resp).shown
    /\ pc' = "collect"
    /\ UNCHANGED << inputs, idx, ingredients_list, all_ingredients, recipe,
                    links, verdict, text_calls >>

\* if ingredients: append, st.success; then the next image of the source.
Collect ==
    /\ pc = "collect"
    /\ IF Truthy(ingredients)
       THEN /\ ingredients_list' = Append(ingredients_list, ingredients.val)
            /\ ui' = Append(ui, Msg("success", "identified", ingredients.val))
       ELSE UNCHANGED << ingredients_list, ui >>
    /\ IF NextSlot(idx) # -1
       THEN idx' = NextSlot(idx) /\ pc' = "open"
       ELSE idx' = idx /\ pc' = "aggregate"
    /\ UNCHANGED << inputs, ingredients, all_ingredients, recipe, links,
                    verdict, vision_calls, text_calls >>

\* if ingredients_list: join and show ... else: st.warning(...)
Aggregate ==
    /\ pc = "aggregate"
    /\ IF ingredients_list # <<>>
       THEN /\ all_ingredients' = Join(ingredients_list)
            /\ ui' = Append(ui, Msg("write", "all_ingredients", Join(ingredients_list)))
            /\ pc' = "suggest"
       ELSE /\ ui' = Append(ui, Msg("warning", "no_input", <<>>))
            /\ pc' = "done"
            /\ UNCHANGED all_ingredients
    /\ UNCHANGED << inputs, idx, ingredients, ingredients_list, recipe, links,
                    verdict, vision_calls, text_calls >>

\* recipe = suggest_single_recipe(all_ingredients, servings)
Suggest ==
    /\ pc = "suggest"
    /\ \E resp \in TextResponses :
         /\ text_calls' = Append(text_calls,
                [ingredients |-> all_ingredients, servings |-> servings,
                 response |-> resp])
         /\ recipe' = suggest_single_recipe(resp).value
         /\ ui' = ui \o suggest_single_recipe(resp).shown
    /\ pc' = "render"
    /\ UNCHANGED << inputs, idx, ingredients, ingredients_list, all_ingredients,
                    links, verdict, vision_calls >>

\* What the script shows for the recipe and the sampled links.
RecipeShown_LinksAlways(r, sample) ==
    (IF Truthy(r)
     THEN << Msg("write", "recipe_header", <<>>), Msg("write", "recipe", r.val) >>
     ELSE << Msg("error", "suggest_failed_final", <<>>) >>)
    \o << Msg("write", "links_header", <<>>) >>
    \o [n \in 1..Cardinality(sample) |-> Msg("button", "link", <<>>)]
RecipeShown(r, sample) ==
    IF Truthy(r)
    THEN << Msg("write", "recipe_header", <<>>), Msg("write", "recipe", r.val),
            Msg("write", "links_header", <<>>) >>
         \o [n \in 1..Cardinality(sample) |-> Msg("button", "link", <<>>)]
    ELSE << Msg("error", "suggest_failed_final", <<>>) >>

\* if recipe: show it and the links ... else: st.error(...)
Render ==
    /\ pc = "render"
    /\ IF Truthy(recipe)
       THEN links' \in get_additional_recipe_links
       ELSE links' = links
    /\ ui' = ui \o RecipeShown(recipe, links')
    /\ pc' = "done"
    /\ UNCHANGED << inputs, idx, ingredients, ingredients_list, all_ingredients,
                    recipe, verdict, vision_calls, text_calls >>

\* Streamlit executes the script again, from the top, in a fresh namespace.
Rerun ==
    /\ pc \in {"done", "crashed"}
    /\ pc' = "start"
    /\ idx' = 0
    /\ ingredients' = None
    /\ ingredients_list' = <<>>
    /\ all_ingredients' = <<>>
    /\ recipe' = None
    /\ links' = {}
    /\ ui' = <<>>
    /\ verdict' = [k \in Slots |-> "none"]
    /\ vision_calls' = [k \in Slots |-> <<>>]
    /\ text_calls' = <<>>
    /\ UNCHANGED inputs

Step ==
    \/ Start
    \/ Open
    \/ Gate
    \/ Compress
    \/ Recognize
    \/ Collect
    \/ Aggregate
    \/ Suggest
    \/ Render

Next == Step \/ Rerun

Spec == Init /\ [][Next]_vars

\* The script is one thread of control that runs to its end once started.
FairSpec == Spec /\ WF_vars(Step)


(* ------------------- vocabulary of the properties ---------------------- *)
\* The images the user submitted, by slot.
Submitted ==
    (IF camera_image # NoImage THEN {0} ELSE {}) \cup (1..Len(uploaded_files))
ImageAt(k) == IF k = 0 THEN camera_image ELSE uploaded_files[k]

\* The run is over: the script ended, or an exception left it.
Terminal == pc \in {"done", "crashed"}

\* A remote call succeeded: it returned a first choice with non-empty text.
HasText(resp) ==
    /\ ~resp.raises
    /\ Len(resp.choices) >= 1
    /\ ~resp.choices[1].isNone
    /\ Len(resp.choices[1].val) >= 1
TextOf(resp) == resp.choices[1].val

Recognized(k) == vision_calls[k] # <<>> /\ HasText(vision_calls[k][1])
RecognitionFailed(k) == vision_calls[k] # <<>> /\ ~HasText(vision_calls[k][1])
SomeRecognized == \E k \in Slots : verdict[k] = "accept" /\ Recognized(k)

\* The texts of the recognized images among slots 1..n, in submission order,
\* followed by the camera's.
RECURSIVE RecognizedTexts(_)
RecognizedTexts(n) ==
    IF n = 0 THEN <<>>
    ELSE RecognizedTexts(n - 1)
         \o (IF Recognized(n) THEN << TextOf(vision_calls[n][1]) >> ELSE <<>>)
AllRecognizedTexts ==
    RecognizedTexts(Len(uploaded_files))
    \o (IF Recognized(0) THEN << TextOf(vision_calls[0][1]) >> ELSE <<>>)

CountMsg(S) == Cardinality({ n \in 1..Len(ui) : ui[n].msg \in S })
Shown(m) == CountMsg({m}) >= 1

NoRemoteCalls == text_calls = <<>> /\ \A k \in Slots : vision_calls[k] = <<>>
RecipeOutcome == Shown("recipe")
SuggestFailureOutcome == Shown("suggest_failed_final")
NoInputOutcome == Shown("no_input")
NothingOfARecipeShown ==
    CountMsg({"recipe_header", "recipe", "links_header", "link"}) = 0 /\ links = {}

(* ------------------------------- C1 ------------------------------------ *)
\* C1: when the Recognizer call for image i fails, image i adds nothing to
\* the aggregated ingredients, an error is shown for it, every later image of
\* the batch is still processed (gated, and recognized if accepted), and the
\* run is not aborted.
C1_RecognizerFailureSkipsOnlyThatImage ==
    Terminal =>
        /\ ingredients_list = AllRecognizedTexts
        /\ CountMsg({"analyze_exception", "identify_failed"})
               = Cardinality({ k \in Slots : RecognitionFailed(k) })
        /\ \A i \in 1..Len(uploaded_files) :
               RecognitionFailed(i) =>
                   /\ pc # "crashed"
                   /\ \A j \in (i + 1)..Len(uploaded_files) :
                          /\ verdict[j] # "none"
                          /\ verdict[j] = "accept" => vision_calls[j] # <<>>

(* ------------------------------- C2 ------------------------------------ *)
\* C2: at the end of a run the aggregated ingredients are the texts of exactly
\* the recognized images, in submission order, joined with ", ", and (when
\* there is at least one) the Suggester has been invoked exactly once, with
\* that string and the user's servings count.
C2_AggregateInOrderAndSuggestOnce ==
    Terminal =>
        /\ ingredients_list = AllRecognizedTexts
        /\ AllRecognizedTexts # <<>> =>
               /\ Len(text_calls) = 1
               /\ text_calls[1].ingredients = Join(AllRecognizedTexts)
               /\ text_calls[1].servings = servings

(* ------------------------------- C3 ------------------------------------ *)
\* C3: in a run in which no image survives the quality gate (every submitted
\* image is rejected for resolution or blur, or none is submitted) neither
\* the Recognizer nor the Suggester is ever invoked, and the run ends at the
\* prompt to supply images.
ZeroSurvive == \A k \in Slots : verdict[k] # "accept"
AllRejected == \A k \in Submitted : verdict[k] \in {"resolution", "blur"}
NoInputFailure ==
    pc = "done" /\ NoInputOutcome /\ NothingOfARecipeShown /\ NoRemoteCalls
C3_NoSurvivorNoRemoteCall ==
    /\ [](ZeroSurvive => NoRemoteCalls)
    /\ [](pc = "done" /\ ZeroSurvive => NoInputFailure)
    /\ [](AllRejected => pc # "crashed")
    /\ (AllRejected ~> NoInputFailure)
C3_Witness ==
    /\ NoInputFailure
    /\ AllRejected
    /\ \E k \in Submitted : verdict[k] = "blur"
    /\ \E k \in Submitted : verdict[k] = "resolution"

(* ------------------------------- C4 ------------------------------------ *)
\* C4: when the Suggester's call fails (it raises, or returns no choice or
\* empty content), nothing of a recipe is ever shown (no recipe, no recipe
\* links), and the run ends with the failure message shown.
SuggesterFailed == text_calls # <<>> /\ ~HasText(text_calls[Len(text_calls)].response)
C4_SuggesterFailureNoRecipe ==
    SuggesterFailed =>
        /\ SomeRecognized
        /\ NothingOfARecipeShown
        /\ ~RecipeOutcome
        /\ pc \in {"render", "done"}
        /\ pc = "done" => SuggestFailureOutcome
C4_Witness ==
    /\ pc = "done"
    /\ SuggesterFailed
    /\ text_calls[1].response = Returned(<<Some(<<>>)>>)
    /\ SuggestFailureOutcome

(* ------------------------------- C5 ------------------------------------ *)
\* C5: the gate's verdict for an image of width w, height h and edge energy e
\* is "resolution" if w < 300 or h < 300, whatever e is; otherwise "blur" if
\* e < 100; otherwise (e = 100 included) accept; and each rejection shows
\* exactly one message, that of the first failing check.
ClaimedVerdict(image) ==
    IF image.w < 300 \/ image.h < 300 THEN "resolution"
    ELSE IF image.e < 100 THEN "blur"
    ELSE "accept"
C5_GateVerdict ==
    /\ \A k \in Slots :
           verdict[k] # "none" => verdict[k] = ClaimedVerdict(ImageAt(k))
    /\ pc \in {"compress", "recognize"} => verdict[idx] = "accept"
    /\ pc = "collect" => verdict[idx] # "none"
    /\ CountMsg({"resolution"}) = Cardinality({ k \in Slots : verdict[k] = "resolution" })
    /\ CountMsg({"blurry"}) = Cardinality({ k \in Slots : verdict[k] = "blur" })
C5_Witness ==
    \E k, j \in Slots :
        /\ verdict[k] = "accept" /\ ImageAt(k).e = 100
        /\ verdict[j] = "resolution" /\ ImageAt(j).e < 100

(* ------------------------------- C6 ------------------------------------ *)
\* C6: no failure of any stage (decoding, gate, compression, Recognizer,
\* Suggester) leaves the pipeline as an uncaught fault.
C6_NoUncaughtFault == pc # "crashed"

(* ------------------------------- C7 ------------------------------------ *)
\* C7: when the script has run to its end, every submitted image, uploaded or
\* captured by the camera, has been through the quality gate.
C7_EverySubmittedImageGated ==
    pc = "done" => \A k \in Submitted : verdict[k] # "none"

(* ------------------------------- C8 ------------------------------------ *)
\* C8: the Recognizer is called only for an image the gate has accepted, at
\* most once, and at the end of the run exactly once for each accepted image
\* and not at all for the others.
C8_OneRecognizerCallPerAcceptedImage ==
    /\ \A k \in Slots :
           /\ Len(vision_calls[k]) <= 1
           /\ vision_calls[k] # <<>> => verdict[k] = "accept"
    /\ Terminal =>
           \A k \in Submitted :
               Len(vision_calls[k]) = (IF verdict[k] = "accept" THEN 1 ELSE 0)

(* ------------------------------- C9 ------------------------------------ *)
\* C9: the Suggester is invoked only after all images are processed, and then
\* if and only if some image passed the gate and returned non-empty text;
\* otherwise the run ends at the prompt to supply images.
C9_SuggestIffSomethingRecognized ==
    /\ Len(text_calls) <= 1
    /\ text_calls # <<>> => pc \in {"render", "done"}
    /\ pc \in {"aggregate", "suggest", "render", "done"} =>
           (ingredients_list # <<>> <=> SomeRecognized)
    /\ pc \in {"render", "done"} => (text_calls # <<>> <=> SomeRecognized)
    /\ pc = "done" /\ ~SomeRecognized => NoInputOutcome /\ text_calls = <<>>
    /\ pc = "done" /\ SomeRecognized => ~NoInputOutcome
C9_Witness ==
    /\ pc = "done"
    /\ ~SomeRecognized
    /\ \E k \in Slots : verdict[k] = "accept" /\ RecognitionFailed(k)
    /\ \E k \in Slots :
           vision_calls[k] # <<>> /\ vision_calls[k][1] = Returned(<<Some(<<>>)>>)
    /\ NoInputOutcome
    /\ text_calls = <<>>

(* ------------------------------- C10 ----------------------------------- *)
\* C10: a run never gets stuck before its end, starts with no aggregated
\* ingredient, and ends in exactly one of three outcomes: a recipe, a
\* Suggester failure message, or the prompt to supply images.
C10_EndsInExactlyOneOfThreeOutcomes ==
    /\ pc = "start" => ingredients_list = <<>> /\ ui = <<>>
    /\ ~Terminal => ENABLED Step
    /\ Terminal =>
           Cardinality({ o \in {"recipe", "suggest_failed_final", "no_input"} :
                           Shown(o) }) = 1

=============================================================================
